---- MODULE Spec2Model ----
(***************************************************************************)
(* Disaster assistance dashboard: the earthquake sync bookkeeping          *)
(* (backend/earthquake_sync.py over the tables of backend/database.py) and *)
(* the application approval workflow (backend/main.py, backend/db.py,      *)
(* backend/seed_homeowners.py, backend/reset_statuses.py), the warehouse    *)
(* calls of backend/db.py, the embedded cache of                           *)
(* backend/earthquake_cache.py and the stored-earthquake query of          *)
(* backend/earthquake_sync.py.                                             *)
(*                                                                         *)
(* Python None / SQL NULL is the empty tuple, a present value x is <<x>>.  *)
(* Times are epoch milliseconds; an ISO string truncated to seconds is     *)
(* represented by its number of whole seconds.  The wall clock is taken to *)
(* be monotone and the server's zone to be UTC.                            *)
(***************************************************************************)
EXTENDS Integers, Sequences, FiniteSets, TLC

VARIABLES
    now,              \* wall clock, epoch ms
    sync_metadata,    \* table sync_metadata: sequence of rows
    earthquakes,      \* table earthquakes: sequence of rows
    response,         \* feed outcome received by the last sync
    window,           \* start/end computed by the last sync
    ret,              \* what the last sync returned
    homeowners,           \* table homeowners (database.py): sequence of rows
    applications,         \* table homeowner_applications (db.py): sequence of rows
    in_memory_approvals,  \* main.in_memory_approvals: application id -> record
    http,                 \* the answer to the last request or script run
    connection,           \* db.py: what get_databricks_connection gives
    schema_initialized,   \* db.py: schema.sql has been executed on the warehouse
    earthquake_events,    \* db.py: table earthquake_events, sequence of rows
    db_result,            \* db.py: what the last call returned
    cache,                \* earthquake_cache.py: table earthquakes of earthquakes.db
    metadata,             \* earthquake_cache.py: 'last_refresh' row of table metadata
    cache_result,         \* earthquake_cache.py: what the last call returned
    query_result,         \* earthquake_sync.py: what get_earthquakes_from_db returned
    syncs                 \* earthquake_sync.py: the sync requests in progress

syncVars == <<now, sync_metadata, earthquakes, response, window, ret>>
appVars == <<homeowners, applications, in_memory_approvals, http>>
dbVars == <<connection, schema_initialized, earthquake_events, db_result>>
cacheVars == <<cache, metadata, cache_result>>
extVars == <<dbVars, cacheVars, query_result, syncs>>

None == <<>>
Some(x) == <<x>>

----------------------------------------------------------------------------
(* Bounds *)

MaxElapsed == 2200       \* the clock runs for at most this many ms
MaxFeatures == 2         \* features in one feed response
MaxApplicants == 1       \* applicants one generator or seed run creates
MaxRows == 1             \* rows of homeowner_applications
MaxHomeowners == 1       \* rows of homeowners
MaxCached == 3           \* rows of the cache when the reads start
MaxStored == 3           \* rows of earthquakes when the queries start
MaxLimit == 2            \* the largest limit a query asks for
MaxWaits == 3            \* waits between two calls on the cache
MaxRequests == 2         \* sync requests in progress at the same time

(* Program constants *)

MsPerSec == 1000
DayMs == 86400000
HourSec == 3600
DaySec == 86400
MinuteMs == 60000

T0 == 2 * DayMs
TickMs == {1000}       \* time between two calls
ClockGaps == {600}    \* time one call spends on its HTTP request

----------------------------------------------------------------------------
(* Feed responses *)

Feature(id, mag, place, time, coords) ==
    [malformed |-> FALSE, id |-> id, mag |-> mag, place |-> place,
     time |-> time, coords |-> coords]

\* a feature whose "geometry" or "properties" is null: .get on None raises
MalformedFeature ==
    [malformed |-> TRUE, id |-> "us9", mag |-> None, place |-> None,
     time |-> None, coords |-> <<>>]

Features ==
    { Feature("us1", Some(3), Some("P"), Some(10), <<1, 2, 3>>),
      Feature("us1", Some(5), Some("Q"), Some(20), <<4, 5, 6>>),
      Feature("us2", Some(4), Some("R"), Some(30), <<7, 8, 9>>),
      Feature("us2", Some(4), Some("R"), Some(30), <<7, 8>>),
      Feature("us3", None, Some("S"), Some(40), <<1, 1, 1>>),
      MalformedFeature }

SeqsUpTo(S, n) == UNION { [1..k -> S] : k \in 0..n }

HttpError == [ok |-> FALSE, features |-> <<>>]
Feeds == {HttpError} \cup { [ok |-> TRUE, features |-> fs] : fs \in SeqsUpTo(Features, MaxFeatures) }

----------------------------------------------------------------------------
(* Tables and their constraints (database.py) *)

\* Earthquake: id is the primary key
PrimaryKeyOk(rows) ==
    \A i, j \in 1..Len(rows) : rows[i].id = rows[j].id => i = j

\* Earthquake: nullable=False columns
NotNullOk(row) ==
    /\ row.magnitude # None
    /\ row.place # None
    /\ row.time # None

\* SyncMetadata: sync_type is unique
UniqueSyncTypeOk(rows) ==
    \A i, j \in 1..Len(rows) : rows[i].sync_type = rows[j].sync_type => i = j

\* what Session.commit() flushes is accepted by the database
FlushOk(eqRows, metaRows) ==
    /\ PrimaryKeyOk(eqRows)
    /\ \A i \in 1..Len(eqRows) : NotNullOk(eqRows[i])
    /\ UniqueSyncTypeOk(metaRows)

\* query(...).first(): the first of the matching rows, 0 if none
First(S) == IF S = {} THEN 0 ELSE CHOOSE i \in S : \A j \in S : i <= j

\* mutant: the lookup filters on another sync type
QuerySyncMeta_WrongType(rows) ==
    First({ i \in 1..Len(rows) : rows[i].sync_type = "homeowner" })

QuerySyncMeta(rows) ==
    First({ i \in 1..Len(rows) : rows[i].sync_type = "earthquake" })

QueryEarthquake(rows, id) ==
    First({ i \in 1..Len(rows) : rows[i].id = id })

\* start/end as sent in the URL: strftime('%Y-%m-%dT%H:%M:%S')
ToIso(ms) == ms \div MsPerSec

----------------------------------------------------------------------------
(* sync_earthquakes_from_usgs (earthquake_sync.py) *)

\* mutant: latitude and longitude taken from the wrong coordinates
FeatureValues_Swapped(f) ==
    [magnitude |-> f.mag, place |-> f.place, time |-> f.time,
     latitude |-> Some(f.coords[1]), longitude |-> Some(f.coords[2]),
     depth |-> Some(f.coords[3])]

\* the column values a feature gives a row
FeatureValues(f) ==
    [magnitude |-> f.mag, place |-> f.place, time |-> f.time,
     latitude |-> Some(f.coords[2]), longitude |-> Some(f.coords[1]),
     depth |-> Some(f.coords[3])]

\* existing.magnitude = ...; ...; existing.data_source = 'USGS'
UpdateEarthquake(row, f) ==
    LET v == FeatureValues(f) IN
    [row EXCEPT !.magnitude = v.magnitude, !.place = v.place, !.time = v.time,
                !.latitude = v.latitude, !.longitude = v.longitude,
                !.depth = v.depth, !.data_source = "USGS"]

\* Earthquake(id=earthquake_id, ...)
NewEarthquake(f) ==
    LET v == FeatureValues(f) IN
    [id |-> f.id, magnitude |-> v.magnitude, place |-> v.place, time |-> v.time,
     latitude |-> v.latitude, longitude |-> v.longitude, depth |-> v.depth,
     data_source |-> "USGS"]

\* The loop over data["features"].  acc.rows are the stored rows as the
\* session sees them (updates applied to the loaded objects), acc.added the
\* objects given to db.add(): the session does not autoflush, so the query
\* for an existing row does not see them.
RECURSIVE ProcessFeatures(_, _, _)
ProcessFeatures(acc, feats, i) ==
    IF i > Len(feats) \/ acc.raised THEN acc
    ELSE LET f == feats[i] IN
         IF f.malformed THEN [acc EXCEPT !.raised = TRUE]
         ELSE IF Len(f.coords) < 3 THEN ProcessFeatures(acc, feats, i + 1)
         ELSE LET k == QueryEarthquake(acc.rows, f.id) IN
              IF k # 0
              THEN ProcessFeatures(
                       [acc EXCEPT !.rows[k] = UpdateEarthquake(@, f),
                                   !.updated_count = @ + 1], feats, i + 1)
              ELSE ProcessFeatures(
                       [acc EXCEPT !.added = Append(@, NewEarthquake(f)),
                                   !.new_count = @ + 1], feats, i + 1)

\* mutant: an existing row keeps its last_sync_time on success
SuccessMeta_NoAdvance(rows, mi, end_time, total) ==
    IF mi # 0
    THEN [rows EXCEPT ![mi].records_synced = total,
                      ![mi].status = "success",
                      ![mi].error_message = None]
    ELSE Append(rows, [id |-> Len(rows) + 1, sync_type |-> "earthquake",
                       last_sync_time |-> end_time, records_synced |-> total,
                       status |-> "success", error_message |-> None])

\* mutant: an existing row keeps its status on success
SuccessMeta_KeepsStatus(rows, mi, end_time, total) ==
    IF mi # 0
    THEN [rows EXCEPT ![mi].last_sync_time = end_time,
                      ![mi].records_synced = total,
                      ![mi].error_message = None]
    ELSE Append(rows, [id |-> Len(rows) + 1, sync_type |-> "earthquake",
                       last_sync_time |-> end_time, records_synced |-> total,
                       status |-> "success", error_message |-> None])

\* "Update or create sync metadata" of the try block
SuccessMeta(rows, mi, end_time, total) ==
    IF mi # 0
    THEN [rows EXCEPT ![mi].last_sync_time = end_time,
                      ![mi].records_synced = total,
                      ![mi].status = "success",
                      ![mi].error_message = None]
    ELSE Append(rows, [id |-> Len(rows) + 1, sync_type |-> "earthquake",
                       last_sync_time |-> end_time, records_synced |-> total,
                       status |-> "success", error_message |-> None])

\* mutant: a failure stores the time of the attempt as last_sync_time
FailedMeta_Advances(rows, mi, start_time, msg) ==
    IF mi # 0
    THEN [rows EXCEPT ![mi].last_sync_time = start_time + MsPerSec,
                      ![mi].status = "failed",
                      ![mi].error_message = Some(msg)]
    ELSE Append(rows, [id |-> Len(rows) + 1, sync_type |-> "earthquake",
                       last_sync_time |-> start_time + DayMs, records_synced |-> 0,
                       status |-> "failed", error_message |-> Some(msg)])

\* "Update sync metadata with error" of the except block
FailedMeta(rows, mi, start_time, msg) ==
    IF mi # 0
    THEN [rows EXCEPT ![mi].status = "failed",
                      ![mi].error_message = Some(msg)]
    ELSE Append(rows, [id |-> Len(rows) + 1, sync_type |-> "earthquake",
                       last_sync_time |-> start_time, records_synced |-> 0,
                       status |-> "failed", error_message |-> Some(msg)])

\* start of the window: the stored last_sync_time, or one day back
StartTime(rows, mi, t) ==
    IF mi # 0 THEN rows[mi].last_sync_time ELSE t - DayMs

\* mutant: the total leaves the updated records out
Returned_TotalOfNew(outcome, n, u) ==
    [outcome |-> outcome, new_records |-> n, updated_records |-> u,
     total_processed |-> n]

Returned(outcome, n, u) ==
    [outcome |-> outcome, new_records |-> n, updated_records |-> u,
     total_processed |-> n + u]

\* One call.  feed is what the HTTP request yields, gap the time that passes
\* between the two readings of the clock.  A commit the database refuses
\* leaves the session's transaction rolled back, so the commit of the except
\* block raises too and the call ends with an exception and nothing stored.
sync_earthquakes_from_usgs(feed, gap) ==
    LET mi         == QuerySyncMeta(sync_metadata)
        start_time == StartTime(sync_metadata, mi, now)
        end_time   == now + gap
        acc0       == [rows |-> earthquakes, added |-> <<>>, new_count |-> 0,
                       updated_count |-> 0, raised |-> FALSE]
        acc        == IF feed.ok THEN ProcessFeatures(acc0, feed.features, 1)
                      ELSE [acc0 EXCEPT !.raised = TRUE]
        flushed    == acc.rows \o acc.added
        total      == acc.new_count + acc.updated_count
        okMeta     == SuccessMeta(sync_metadata, mi, end_time, total)
        errMeta    == FailedMeta(sync_metadata, mi, start_time,
                                 IF feed.ok THEN "AttributeError" ELSE "HTTPError")
    IN  /\ end_time <= T0 + MaxElapsed
        /\ now' = end_time
        /\ response' = feed
        /\ window' = [start_time |-> start_time, end_time |-> end_time,
                      start_iso |-> ToIso(start_time), end_iso |-> ToIso(end_time)]
        /\ IF ~acc.raised /\ FlushOk(flushed, okMeta)
           THEN /\ earthquakes' = flushed
                /\ sync_metadata' = okMeta
                /\ ret' = Returned("success", acc.new_count, acc.updated_count)
           ELSE IF acc.raised /\ FlushOk(flushed, errMeta)
           THEN /\ earthquakes' = flushed
                /\ sync_metadata' = errMeta
                /\ ret' = Returned("failed", 0, 0)
           ELSE /\ UNCHANGED <<earthquakes, sync_metadata>>
                /\ ret' = Returned("raised", 0, 0)
        /\ UNCHANGED <<appVars, extVars>>

Sync == \E feed \in Feeds, gap \in ClockGaps : sync_earthquakes_from_usgs(feed, gap)

\* time passes between calls
Tick == \E d \in TickMs :
    /\ now + d <= T0 + MaxElapsed
    /\ now' = now + d
    /\ UNCHANGED <<sync_metadata, earthquakes, response, window, ret>>
    /\ UNCHANGED <<appVars, extVars>>

----------------------------------------------------------------------------
(* Concurrent requests for sync_earthquakes_from_usgs.  A request runs up   *)
(* to its await of client.get() without giving up the event loop, and from *)
(* the response to its return likewise; each request has a session of its  *)
(* own (database.get_db) and the database runs at READ COMMITTED.          *)

Requests == 1..MaxRequests

\* a request that has not read anything yet
IdleSync ==
    [pc |-> "idle", mi |-> 0, loaded |-> None, start_time |-> 0, end_time |-> 0]

\* lines 29-65: the metadata row as this session loads it, the window, and
\* the request sent
BeginSync(p) ==
    LET mi == QuerySyncMeta(sync_metadata) IN
    /\ syncs[p].pc = "idle"
    /\ syncs' = [syncs EXCEPT ![p] =
                    [pc |-> "awaiting", mi |-> mi,
                     loaded |-> IF mi # 0 THEN Some(sync_metadata[mi]) ELSE None,
                     start_time |-> StartTime(sync_metadata, mi, now),
                     end_time |-> now]]
    /\ UNCHANGED <<syncVars, appVars, dbVars, cacheVars, query_result>>

\* the UPDATE of a flush sets the columns whose value the session changed
\* on the object it loaded; the others keep what is stored
FlushedRow(stored, loaded, object) ==
    [id |-> stored.id, sync_type |-> stored.sync_type,
     last_sync_time |-> IF object.last_sync_time # loaded.last_sync_time
                        THEN object.last_sync_time ELSE stored.last_sync_time,
     records_synced |-> IF object.records_synced # loaded.records_synced
                        THEN object.records_synced ELSE stored.records_synced,
     status |-> IF object.status # loaded.status
                THEN object.status ELSE stored.status,
     error_message |-> IF object.error_message # loaded.error_message
                       THEN object.error_message ELSE stored.error_message]

\* lines 66-173 for the request p, feed being the response it receives
CompleteSync(p, feed) ==
    LET loc     == syncs[p]
        acc0    == [rows |-> earthquakes, added |-> <<>>, new_count |-> 0,
                    updated_count |-> 0, raised |-> FALSE]
        acc     == IF feed.ok THEN ProcessFeatures(acc0, feed.features, 1)
                   ELSE [acc0 EXCEPT !.raised = TRUE]
        flushed == acc.rows \o acc.added
        total   == acc.new_count + acc.updated_count
        msg     == IF feed.ok THEN "AttributeError" ELSE "HTTPError"
        okMeta  == IF loc.mi # 0
                   THEN [sync_metadata EXCEPT ![loc.mi] =
                            FlushedRow(@, loc.loaded[1],
                                SuccessMeta(loc.loaded, 1, loc.end_time, total)[1])]
                   ELSE SuccessMeta(sync_metadata, 0, loc.end_time, total)
        errMeta == IF loc.mi # 0
                   THEN [sync_metadata EXCEPT ![loc.mi] =
                            FlushedRow(@, loc.loaded[1],
                                FailedMeta(loc.loaded, 1, loc.start_time, msg)[1])]
                   ELSE FailedMeta(sync_metadata, 0, loc.start_time, msg)
    IN  /\ loc.pc = "awaiting"
        /\ syncs' = [syncs EXCEPT ![p] = IdleSync]
        /\ response' = feed
        /\ window' = [start_time |-> loc.start_time, end_time |-> loc.end_time,
                      start_iso |-> ToIso(loc.start_time),
                      end_iso |-> ToIso(loc.end_time)]
        /\ IF ~acc.raised /\ FlushOk(flushed, okMeta)
           THEN /\ earthquakes' = flushed
                /\ sync_metadata' = okMeta
                /\ ret' = Returned("success", acc.new_count, acc.updated_count)
           ELSE IF acc.raised /\ FlushOk(flushed, errMeta)
           THEN /\ earthquakes' = flushed
                /\ sync_metadata' = errMeta
                /\ ret' = Returned("failed", 0, 0)
           ELSE /\ UNCHANGED <<earthquakes, sync_metadata>>
                /\ ret' = Returned("raised", 0, 0)
        /\ UNCHANGED <<now, appVars, dbVars, cacheVars, query_result>>

\* the responses the concurrent requests receive
ConcurrentFeeds ==
    { feed \in Feeds : \A i \in 1..Len(feed.features) :
                           i = 1 /\ feed.features[i].id = "us1" }

Begin == \E p \in Requests : BeginSync(p)

Complete == \E p \in Requests, feed \in ConcurrentFeeds : CompleteSync(p, feed)

----------------------------------------------------------------------------
(* Application workflow: texts and statuses *)

\* a text is a tuple of characters
RECURSIVE LStrip(_)
LStrip(s) == IF s # <<>> /\ s[1] = " " THEN LStrip(Tail(s)) ELSE s

RECURSIVE RStrip(_)
RStrip(s) == IF s # <<>> /\ s[Len(s)] = " " THEN RStrip(SubSeq(s, 1, Len(s) - 1)) ELSE s

\* str.strip()
Strip(s) == RStrip(LStrip(s))

\* mutant: only the empty text counts as missing
Blank_NoStrip(s) == s = <<>>

\* not text or not text.strip()
Blank(s) == s = <<>> \/ Strip(s) = <<>>

\* statuses = [...] of the generators and of the seed script
Statuses == {"Pending", "Under Review", "Approved", "Processing", "Rejected"}

\* valid_actions of approve_application
ValidActions == {"approve", "reject", "request_more_info"}

\* mutant: a request for more information gets a status of its own
NewStatus_OwnStatus(action) ==
    IF action = "approve" THEN "Approved"
    ELSE IF action = "reject" THEN "Rejected"
    ELSE "More Info Requested"

\* "Determine status based on action"
NewStatus(action) ==
    IF action = "approve" THEN "Approved"
    ELSE IF action = "reject" THEN "Rejected"
    ELSE "Under Review"

Answer(code, application) == [code |-> code, application |-> application]

\* mutant: the assignment is lost
Put_NoStore(d, k, v) == d

\* dict[key] = value
Put(d, k, v) == [x \in DOMAIN d \cup {k} |-> IF x = k THEN v ELSE d[x]]

EmptyDict == [x \in {} |-> None]

----------------------------------------------------------------------------
(* Requests *)

OkComment == <<" ", "o", "k", " ">>
Reviewer  == <<"a", "l", " ">>
Reply     == <<" ", "h", "i">>

ApprovalRequest(action, comment, approver_name) ==
    [action |-> action, comment |-> comment, approver_name |-> approver_name]

ApprovalRequests ==
    { ApprovalRequest(a, OkComment, Reviewer) : a \in ValidActions }
    \cup { ApprovalRequest("delete", OkComment, Reviewer),
           ApprovalRequest("approve", <<>>, Reviewer),
           ApprovalRequest("approve", <<" ", " ">>, Reviewer),
           ApprovalRequest("reject", OkComment, <<>>),
           ApprovalRequest("reject", OkComment, <<" ">>) }

ResponseTexts == { <<>>, <<" ">>, Reply }

\* ids the generators give: APP-{1000 + i} and APP-{10000 + i}
ApplicantId(i) == 1000 + i
TestDataId(i) == 10000 + i

\* the id that requests name; it is unknown until a generator has stored it
\* or an approval has been kept in memory
RequestIds == { ApplicantId(0) }

\* how the calls into db.py end: the update raises, it reports failure
\* (False), it succeeds and the application is read back, or it succeeds and
\* the application is not read back (None)
DbUpdateOutcomes == {"raise", "false", "ok", "ok_none"}
DbReadOutcomes == {"raise", "none", "ok"}

----------------------------------------------------------------------------
(* Records *)

ApprovalRecord(status, action, comment, approver, date) ==
    [status |-> status, approval_action |-> action, approval_comment |-> comment,
     approver_name |-> approver, approval_date |-> date,
     applicant_response |-> None, applicant_response_date |-> None]

\* {"id": application_id, **record}
WithId(id, rec) ==
    [id |-> id, status |-> rec.status, approval_action |-> rec.approval_action,
     approval_comment |-> rec.approval_comment, approver_name |-> rec.approver_name,
     approval_date |-> rec.approval_date,
     applicant_response |-> rec.applicant_response,
     applicant_response_date |-> rec.applicant_response_date]

\* a row of homeowner_applications as save_homeowner_application inserts it
ApplicationRow(id, status) ==
    WithId(id, ApprovalRecord(status, None, None, None, None))

\* a row of homeowners as seed_homeowners adds it
HomeownerRow(id, status) ==
    [id |-> id, status |-> status, review_notes |-> None,
     reviewer_name |-> None, review_date |-> None]

HasRow(rows, id) == \E i \in 1..Len(rows) : rows[i].id = id

----------------------------------------------------------------------------
(* db.update_application_approval, db.get_application_by_id and
   db.submit_applicant_response: called by main.py, not defined in db.py *)

db_update_application_approval(rows, id, action, comment, approver, date) ==
    [i \in 1..Len(rows) |->
        IF rows[i].id = id
        THEN [rows[i] EXCEPT !.status = NewStatus(action),
                             !.approval_action = Some(action),
                             !.approval_comment = Some(comment),
                             !.approver_name = Some(approver),
                             !.approval_date = Some(date)]
        ELSE rows[i]]

db_get_application_by_id(rows, id) ==
    rows[First({ i \in 1..Len(rows) : rows[i].id = id })]

db_can_respond(rows, id) ==
    \E i \in 1..Len(rows) : rows[i].id = id /\ rows[i].status = "Under Review"

db_submit_applicant_response(rows, id, text, date) ==
    [i \in 1..Len(rows) |->
        IF rows[i].id = id /\ rows[i].status = "Under Review"
        THEN [rows[i] EXCEPT !.status = "Ready for Review",
                             !.applicant_response = Some(text),
                             !.applicant_response_date = Some(date)]
        ELSE rows[i]]

----------------------------------------------------------------------------
(* main.py: approval workflow endpoints *)

\* the three 400 checks at the head of approve_application
ApprovalRejected(req) ==
    \/ req.action \notin ValidActions
    \/ Blank(req.comment)
    \/ Blank(req.approver_name)

\* mutant: comment and approver name are stored as sent
MemoryApproval_Untrimmed(req, date) ==
    ApprovalRecord(NewStatus(req.action), Some(req.action),
                   Some(req.comment), Some(req.approver_name), Some(date))

\* in_memory_approvals[application_id] = {...}
MemoryApproval(req, date) ==
    ApprovalRecord(NewStatus(req.action), Some(req.action),
                   Some(Strip(req.comment)), Some(Strip(req.approver_name)),
                   Some(date))

approve_application(id, req, out) ==
    LET hit     == out \in {"ok", "ok_none"} /\ HasRow(applications, id)
        updated == db_update_application_approval(applications, id, req.action,
                       Strip(req.comment), Strip(req.approver_name), now)
    IN  /\ UNCHANGED homeowners
        /\ IF ApprovalRejected(req)
           THEN /\ http' = Answer(400, None)
                /\ UNCHANGED <<applications, in_memory_approvals>>
           ELSE IF out = "raise"
           THEN /\ http' = Answer(500, None)
                /\ UNCHANGED <<applications, in_memory_approvals>>
           ELSE IF hit /\ out = "ok"
           THEN /\ applications' = updated
                /\ http' = Answer(200, Some(db_get_application_by_id(updated, id)))
                /\ UNCHANGED in_memory_approvals
           ELSE /\ applications' = IF hit THEN updated ELSE applications
                /\ in_memory_approvals' =
                       Put(in_memory_approvals, id, MemoryApproval(req, now))
                /\ http' = Answer(200, Some(WithId(id, MemoryApproval(req, now))))

\* mutant: the response is recorded whatever the current status is
MemoryResponse_AnyStatus(mem, id, text, date) ==
    IF id \in DOMAIN mem
    THEN [mem EXCEPT ![id].status = "Ready for Review",
                     ![id].applicant_response = Some(Strip(text)),
                     ![id].applicant_response_date = Some(date)]
    ELSE mem

\* the in-memory branch of submit_applicant_response
MemoryResponse(mem, id, text, date) ==
    IF id \in DOMAIN mem /\ mem[id].status = "Under Review"
    THEN [mem EXCEPT ![id].status = "Ready for Review",
                     ![id].applicant_response = Some(Strip(text)),
                     ![id].applicant_response_date = Some(date)]
    ELSE mem

\* mutant: a record in another status is answered as if it were unknown
MemoryResponseCode_NotFound(mem, id) ==
    IF id \in DOMAIN mem /\ mem[id].status = "Under Review" THEN 200 ELSE 404

MemoryResponseCode(mem, id) ==
    IF id \notin DOMAIN mem THEN 404
    ELSE IF mem[id].status = "Under Review" THEN 200
    ELSE 400

submit_applicant_response(id, text, out) ==
    LET hit     == out \in {"ok", "ok_none"} /\ db_can_respond(applications, id)
        updated == db_submit_applicant_response(applications, id, Strip(text), now)
        mem     == MemoryResponse(in_memory_approvals, id, text, now)
        code    == MemoryResponseCode(in_memory_approvals, id)
    IN  /\ UNCHANGED homeowners
        /\ IF Blank(text)
           THEN /\ http' = Answer(400, None)
                /\ UNCHANGED <<applications, in_memory_approvals>>
           ELSE IF out = "raise"
           THEN /\ http' = Answer(500, None)
                /\ UNCHANGED <<applications, in_memory_approvals>>
           ELSE IF hit /\ out = "ok"
           THEN /\ applications' = updated
                /\ http' = Answer(200, Some(db_get_application_by_id(updated, id)))
                /\ UNCHANGED in_memory_approvals
           ELSE /\ applications' = IF hit THEN updated ELSE applications
                /\ in_memory_approvals' = mem
                /\ http' = Answer(code, IF code = 200 THEN Some(WithId(id, mem[id])) ELSE None)

\* mutant: the database record wins over the in-memory fields
Merged_DbWins(row, rec) == row

\* application.update(in_memory_approvals[application_id])
Merged(row, rec) ==
    [row EXCEPT !.status = rec.status,
                !.approval_action = rec.approval_action,
                !.approval_comment = rec.approval_comment,
                !.approver_name = rec.approver_name,
                !.approval_date = rec.approval_date,
                !.applicant_response =
                    IF rec.applicant_response # None THEN rec.applicant_response ELSE @,
                !.applicant_response_date =
                    IF rec.applicant_response_date # None THEN rec.applicant_response_date ELSE @]

get_application(id, out) ==
    /\ UNCHANGED <<homeowners, applications, in_memory_approvals>>
    /\ IF out = "raise"
       THEN http' = Answer(500, None)
       ELSE IF out = "ok" /\ HasRow(applications, id)
       THEN LET row == db_get_application_by_id(applications, id) IN
            http' = Answer(200, Some(IF id \in DOMAIN in_memory_approvals
                                     THEN Merged(row, in_memory_approvals[id])
                                     ELSE row))
       ELSE IF id \in DOMAIN in_memory_approvals
       THEN http' = Answer(200, Some(WithId(id, in_memory_approvals[id])))
       ELSE http' = Answer(404, None)

\* db.get_homeowner_applications takes no status_filter: the call raises
list_applications ==
    /\ http' = Answer(500, None)
    /\ UNCHANGED <<homeowners, applications, in_memory_approvals>>

----------------------------------------------------------------------------
(* Data generation, seeding and reset *)

\* db.save_homeowner_application for each generated applicant, in order;
\* saved[i] is whether the database takes the i-th insert
SaveApplications(rows, ids, status, saved) ==
    LET F[i \in 0..Len(ids)] ==
            IF i = 0 THEN rows
            ELSE IF saved[i] THEN Append(F[i - 1], ApplicationRow(ids[i], status[i]))
            ELSE F[i - 1]
    IN  F[Len(ids)]

generate_homeowner_applicants(n, status, saved) ==
    /\ Len(applications) + n <= MaxRows
    /\ applications' = SaveApplications(applications,
                           [i \in 1..n |-> ApplicantId(i - 1)], status, saved)
    /\ http' = Answer(200, None)
    /\ UNCHANGED <<homeowners, in_memory_approvals>>

generate_test_data(n, status, saved) ==
    /\ Len(applications) + n <= MaxRows
    /\ applications' = SaveApplications(applications,
                           [i \in 1..n |-> TestDataId(i - 1)], status, saved)
    /\ http' = Answer(200, None)
    /\ UNCHANGED <<homeowners, in_memory_approvals>>

\* seed_homeowners: ids are fresh (uuid4), here the position in the table
seed_homeowners(n, status, committed) ==
    /\ Len(homeowners) + n <= MaxHomeowners
    /\ homeowners' = IF committed
                     THEN homeowners \o [i \in 1..n |->
                              HomeownerRow(Len(homeowners) + i, status[i])]
                     ELSE homeowners
    /\ http' = Answer(0, None)
    /\ UNCHANGED <<applications, in_memory_approvals>>

\* db.query(Homeowner).update({...})
ResetRow(row) ==
    [row EXCEPT !.status = "Pending", !.review_notes = None,
                !.reviewer_name = None, !.review_date = None]

\* how a run of the script ends: without error, with an error in a count,
\* the update or the commit (rolled back), or with an error in the
\* verification count that follows the commit
ResetOutcomes == {"ok", "error", "error_after_commit"}

reset_all_statuses(outcome) ==
    /\ homeowners' = IF outcome \in {"ok", "error_after_commit"}
                     THEN [i \in 1..Len(homeowners) |-> ResetRow(homeowners[i])]
                     ELSE homeowners
    /\ http' = Answer(0, None)
    /\ UNCHANGED <<applications, in_memory_approvals>>

\* a request answered with 400 makes no call into db.py
Approve == \E id \in RequestIds, req \in ApprovalRequests :
               \E out \in IF ApprovalRejected(req) THEN {"ok"} ELSE DbUpdateOutcomes :
                   approve_application(id, req, out) /\ UNCHANGED <<syncVars, extVars>>

Respond == \E id \in RequestIds, text \in ResponseTexts :
               \E out \in IF Blank(text) THEN {"ok"} ELSE DbUpdateOutcomes :
                   submit_applicant_response(id, text, out) /\ UNCHANGED <<syncVars, extVars>>

GetApplication == \E id \in RequestIds, out \in DbReadOutcomes :
                      get_application(id, out) /\ UNCHANGED <<syncVars, extVars>>

ListApplications == list_applications /\ UNCHANGED <<syncVars, extVars>>

\* the statuses drawn matter only where the rows are stored
Drawn(n, stored) ==
    { s \in [1..n -> Statuses] : \A i \in 1..n : ~stored[i] => s[i] = "Pending" }

GenerateApplicants == \E n \in 1..MaxApplicants : \E saved \in [1..n -> BOOLEAN] :
                          \E status \in Drawn(n, saved) :
                              generate_homeowner_applicants(n, status, saved) /\ UNCHANGED <<syncVars, extVars>>

GenerateTestData == \E n \in 1..MaxApplicants : \E saved \in [1..n -> BOOLEAN] :
                        \E status \in Drawn(n, saved) :
                            generate_test_data(n, status, saved) /\ UNCHANGED <<syncVars, extVars>>

Seed == \E n \in 1..MaxApplicants, committed \in BOOLEAN :
            \E status \in Drawn(n, [i \in 1..n |-> committed]) :
                seed_homeowners(n, status, committed) /\ UNCHANGED <<syncVars, extVars>>

Reset == \E outcome \in ResetOutcomes : reset_all_statuses(outcome) /\ UNCHANGED <<syncVars, extVars>>

----------------------------------------------------------------------------
vars == <<now, sync_metadata, earthquakes, response, window, ret,
          homeowners, applications, in_memory_approvals, http,
          connection, schema_initialized, earthquake_events, db_result,
          cache, metadata, cache_result, query_result, syncs>>

Init ==
    /\ now = T0
    /\ sync_metadata = <<>>
    /\ earthquakes = <<>>
    /\ response = HttpError
    /\ window = [start_time |-> 0, end_time |-> 0, start_iso |-> 0, end_iso |-> 0]
    /\ ret = Returned("none", 0, 0)
    /\ homeowners = <<>>
    /\ applications = <<>>
    /\ in_memory_approvals = EmptyDict
    /\ http = Answer(0, None)
    /\ connection = "none"
    /\ schema_initialized = FALSE
    /\ earthquake_events = <<>>
    /\ db_result = [op |-> "none", ok |-> FALSE, rows |-> <<>>, raised |-> FALSE]
    /\ cache = <<>>
    /\ metadata = None
    /\ cache_result = [op |-> "none", args |-> <<>>, count |-> 0, rows |-> <<>>,
                       flag |-> FALSE]
    /\ query_result = [min_magnitude |-> None, limit |-> 0, rows |-> <<>>]
    /\ syncs = [p \in Requests |-> IdleSync]

SyncNext == Sync \/ Tick

SyncSpec == Init /\ [][SyncNext]_vars

ConcurrentNext == Begin \/ Complete \/ Tick

ConcurrentSpec == Init /\ [][ConcurrentNext]_vars

AppNext ==
    \/ Approve
    \/ Respond
    \/ GetApplication
    \/ ListApplications
    \/ GenerateApplicants
    \/ GenerateTestData
    \/ Seed
    \/ Reset

AppSpec == Init /\ [][AppNext]_vars

----------------------------------------------------------------------------
(* db.py: the Databricks SQL warehouse *)

\* what get_databricks_connection gives: None without token or host name, a
\* connection, or an exception from sql.connect
Connections == {"none", "up", "unreachable"}

\* the dict get_earthquakes builds for a feature
EarthquakeEvent(id, magnitude) == [id |-> id, magnitude |-> magnitude]

EarthquakeEvents == { EarthquakeEvent(id, m) : id \in {"us1", "us2"}, m \in {3, 5} }

DbResult(op, ok, rows) == [op |-> op, ok |-> ok, rows |-> rows, raised |-> FALSE]

\* get_cursor: yields None when there is no connection
get_cursor(conn) == IF conn = "none" THEN None ELSE Some(conn)

\* how the body of a call ends: no cursor, a statement raised (caught by the
\* call's except clause), or every statement executed
DbCall(conn, executes) ==
    IF conn = "unreachable" THEN "raised"
    ELSE IF get_cursor(conn) = None THEN "no_cursor"
    ELSE IF executes THEN "executed"
    ELSE "raised"

\* mutant: a call skipped for want of a connection is reported as done
Skipped_AsSuccess(op) == DbResult(op, TRUE, <<>>)

\* if cursor is None: return False (an empty list for a read)
Skipped(op) == DbResult(op, FALSE, <<>>)

\* except Exception: return False (an empty list for a read)
Caught(op) == DbResult(op, FALSE, <<>>)

initialize_schema(executes) ==
    LET end == DbCall(connection, executes) IN
    /\ schema_initialized' = (schema_initialized \/ end = "executed")
    /\ db_result' = IF end = "no_cursor" THEN Skipped("initialize_schema")
                    ELSE IF end = "raised" THEN Caught("initialize_schema")
                    ELSE DbResult("initialize_schema", TRUE, <<>>)
    /\ UNCHANGED <<connection, earthquake_events, applications>>

\* MERGE INTO earthquake_events ... ON target.id = source.id
\* WHEN NOT MATCHED THEN INSERT *
MergeNotMatched(rows, e) ==
    IF \E i \in 1..Len(rows) : rows[i].id = e.id THEN rows ELSE Append(rows, e)

\* the statement raises when the table does not exist
save_earthquake_event(e, executes) ==
    LET end == DbCall(connection, executes /\ schema_initialized) IN
    /\ earthquake_events' = IF end = "executed"
                            THEN MergeNotMatched(earthquake_events, e)
                            ELSE earthquake_events
    /\ db_result' = IF end = "no_cursor" THEN Skipped("save_earthquake_event")
                    ELSE IF end = "raised" THEN Caught("save_earthquake_event")
                    ELSE DbResult("save_earthquake_event", TRUE, <<>>)
    /\ UNCHANGED <<connection, schema_initialized, applications>>

\* the INSERT into homeowner_applications, then the inserts into
\* fraud_indicators, missing_documents and next_steps; each statement takes
\* effect as it is executed, so with executes = "first" the row stays and
\* the call returns False
save_homeowner_application(a, executes) ==
    LET end == DbCall(connection, executes # "none" /\ schema_initialized) IN
    /\ Len(applications) < MaxRows
    /\ applications' = IF end = "executed" THEN Append(applications, a)
                       ELSE applications
    /\ db_result' = IF end = "no_cursor" THEN Skipped("save_homeowner_application")
                    ELSE IF end = "raised" \/ executes = "first"
                    THEN Caught("save_homeowner_application")
                    ELSE DbResult("save_homeowner_application", TRUE, <<>>)
    /\ UNCHANGED <<connection, schema_initialized, earthquake_events>>

\* the unfiltered read (earthquake_id=None)
get_homeowner_applications(executes) ==
    LET end == DbCall(connection, executes /\ schema_initialized) IN
    /\ db_result' = IF end = "no_cursor" THEN Skipped("get_homeowner_applications")
                    ELSE IF end = "raised" THEN Caught("get_homeowner_applications")
                    ELSE DbResult("get_homeowner_applications", TRUE, applications)
    /\ UNCHANGED <<connection, schema_initialized, earthquake_events, applications>>

\* everything outside db.py's tables and result
DbFrame == UNCHANGED <<syncVars, homeowners, in_memory_approvals, http,
                       cacheVars, query_result, syncs>>

\* the environment variables or the warehouse change
SetEnvironment == \E c \in Connections :
    /\ connection' = c
    /\ UNCHANGED <<schema_initialized, earthquake_events, db_result, applications>>
    /\ DbFrame

InitializeSchema == \E x \in BOOLEAN : initialize_schema(x) /\ DbFrame

SaveEarthquakeEvent == \E e \in EarthquakeEvents, x \in BOOLEAN :
                           save_earthquake_event(e, x) /\ DbFrame

SaveHomeownerApplication ==
    \E status \in Statuses, x \in {"none", "first", "all"} :
        save_homeowner_application(ApplicationRow(ApplicantId(0), status), x) /\ DbFrame

GetHomeownerApplications == \E x \in BOOLEAN : get_homeowner_applications(x) /\ DbFrame

DbNext ==
    \/ SetEnvironment
    \/ InitializeSchema
    \/ SaveEarthquakeEvent
    \/ SaveHomeownerApplication
    \/ GetHomeownerApplications

DbSpec == Init /\ [][DbNext]_vars

----------------------------------------------------------------------------
(* earthquake_cache.py: the SQLite cache earthquakes.db *)

\* The event times of the cached rows and the thresholds of a read are whole
\* seconds here (a month of milliseconds exceeds the model checker's
\* integers): a time of t stands for t * 1000 ms.
WeekSec == 7 * DaySec
MonthSec == 30 * DaySec
WaitMs == {MinuteMs \div 2}   \* time between two calls on the cache
HalfMinute == (MinuteMs \div 2) \div MsPerSec
Sec(ms) == ms \div MsPerSec

\* the tuple bound to INSERT OR REPLACE INTO earthquakes
CacheRow(f) ==
    [id |-> f.id, magnitude |-> f.mag, place |-> f.place, time |-> f.time,
     longitude |-> Some(f.coords[1]), latitude |-> Some(f.coords[2]),
     depth |-> Some(f.coords[3])]

\* mutant: INSERT OR IGNORE, a stored row is kept
InsertOrReplace_Ignore(rows, f) ==
    IF Len(f.coords) >= 3 /\ \A i \in 1..Len(rows) : rows[i].id # f.id
    THEN Append(rows, CacheRow(f))
    ELSE rows

\* INSERT OR REPLACE on the primary key id: the row holding the id is
\* deleted and the new row inserted; coords[2] raises on fewer than three
\* coordinates and the feature is skipped
InsertOrReplace(rows, f) ==
    IF Len(f.coords) >= 3
    THEN LET Other(r) == r.id # f.id IN Append(SelectSeq(rows, Other), CacheRow(f))
    ELSE rows

\* the loop over the features: the table and the count after n features
RECURSIVE CacheFeaturesOf(_, _, _)
CacheFeaturesOf(rows, fs, n) ==
    IF n = 0 THEN [rows |-> rows, cached |-> 0]
    ELSE LET before == CacheFeaturesOf(rows, fs, n - 1)
             after  == InsertOrReplace(before.rows, fs[n])
         IN  [rows |-> after,
              cached |-> IF Len(fs[n].coords) >= 3 THEN before.cached + 1
                         ELSE before.cached]

\* a feature whose geometry is null ends the loop before conn.commit()
Aborts(fs) == \E i \in 1..Len(fs) : fs[i].malformed

\* strings: 'Never', an ISO timestamp, or any other text
Text(kind, ms) == [kind |-> kind, ms |-> ms]
Never == Text("never", 0)
OtherText == Text("text", 0)

\* datetime.isoformat() and datetime.fromisoformat(): None stands for the
\* ValueError
IsoFormat(ms) == Text("iso", ms)
FromIso(t) == IF t.kind = "iso" THEN Some(t.ms) ELSE None

\* the last call on the cache: its arguments and what it returned
CacheResult(op, args, count, rows, flag) ==
    [op |-> op, args |-> args, count |-> count, rows |-> rows, flag |-> flag]

\* released: the uncommitted connection of an aborted loop is closed before
\* the metadata is written; if it is not, the write finds the database
\* locked and the call raises
fetch_and_cache_earthquakes(feed, released) ==
    LET aborted == feed.ok /\ Aborts(feed.features)
        stored  == IF feed.ok /\ ~aborted
                   THEN CacheFeaturesOf(cache, feed.features, Len(feed.features))
                   ELSE [rows |-> cache, cached |-> 0]
        locked  == aborted /\ ~released
    IN  /\ cache' = stored.rows
        /\ metadata' = IF locked THEN metadata ELSE Some(IsoFormat(now))
        /\ cache_result' = CacheResult(IF locked THEN "raised" ELSE "fetch",
                                       <<feed, released>>, stored.cached, <<>>, FALSE)

\* mutant: an unknown timeframe is read as the shortest window
TimeframeSec_DefaultHour(timeframe) ==
    CASE timeframe = "hour" -> HourSec
      [] timeframe = "day" -> DaySec
      [] timeframe = "week" -> WeekSec
      [] timeframe = "month" -> MonthSec
      [] OTHER -> HourSec

\* time_thresholds.get(timeframe, time_thresholds["day"])
TimeframeSec(timeframe) ==
    CASE timeframe = "hour" -> HourSec
      [] timeframe = "day" -> DaySec
      [] timeframe = "week" -> WeekSec
      [] timeframe = "month" -> MonthSec
      [] OTHER -> DaySec

\* WHERE time >= ? AND magnitude >= ?: a comparison with NULL is not true
Selected(rows, threshold, min_magnitude) ==
    { i \in 1..Len(rows) :
        /\ rows[i].time # None
        /\ rows[i].time[1] >= threshold
        /\ rows[i].magnitude # None
        /\ rows[i].magnitude[1] >= min_magnitude }

\* ORDER BY time DESC: order lists the selected rows, each once, with the
\* times descending
OrderedByTimeDesc(order, rows, ids) ==
    /\ Len(order) = Cardinality(ids)
    /\ \A i \in DOMAIN order : order[i] \in ids
    /\ \A i, j \in DOMAIN order : i # j => order[i] # order[j]
    /\ \A i, j \in DOMAIN order :
           i < j => rows[order[i]].time[1] >= rows[order[j]].time[1]

get_cached_earthquakes(timeframe, min_magnitude, order) ==
    LET threshold == Sec(now) - TimeframeSec(timeframe)
        ids == Selected(cache, threshold, min_magnitude)
    IN  /\ OrderedByTimeDesc(order, cache, ids)
        /\ cache_result' = CacheResult("get_cached", <<timeframe, min_magnitude>>,
                                       Len(order),
                                       [i \in DOMAIN order |-> cache[order[i]]], FALSE)
        /\ UNCHANGED <<cache, metadata>>

\* readable: the SELECT on metadata does not raise
get_last_refresh(readable) ==
    IF readable /\ metadata # None THEN metadata[1] ELSE Never

\* mutant: a marker exactly max_age_minutes old is already stale
IsStale_AtLimit(age_ms, max_age_minutes) == age_ms >= max_age_minutes * MinuteMs

\* age.total_seconds() > (max_age_minutes * 60)
IsStale(age_ms, max_age_minutes) == age_ms > max_age_minutes * MinuteMs

should_refresh(max_age_minutes, readable) ==
    LET last_refresh == get_last_refresh(readable)
        parsed == FromIso(last_refresh)
        answer == IF last_refresh = Never THEN TRUE
                  ELSE IF parsed = None THEN TRUE
                  ELSE IsStale(now - parsed[1], max_age_minutes)
    IN  /\ cache_result' = CacheResult("should_refresh", <<max_age_minutes, readable>>,
                                       0, <<>>, answer)
        /\ UNCHANGED <<cache, metadata>>

\* everything outside the cache
CacheFrame == UNCHANGED <<sync_metadata, earthquakes, response, window, ret,
                          appVars, dbVars, query_result, syncs>>

Timeframes == {"hour", "day", "week", "month", "year"}
MinMagnitudes == {3, 5}
MaxAges == {0, 1}

FetchAndCache == \E feed \in Feeds, released \in BOOLEAN :
    /\ released \/ (feed.ok /\ Aborts(feed.features))
    /\ fetch_and_cache_earthquakes(feed, released)
    /\ UNCHANGED now
    /\ CacheFrame

GetCached == \E timeframe \in Timeframes, min_magnitude \in MinMagnitudes :
    \E order \in SeqsUpTo(1..Len(cache), Len(cache)) :
        /\ get_cached_earthquakes(timeframe, min_magnitude, order)
        /\ UNCHANGED now
        /\ CacheFrame

ShouldRefresh == \E max_age_minutes \in MaxAges, readable \in BOOLEAN :
    /\ should_refresh(max_age_minutes, readable)
    /\ UNCHANGED now
    /\ CacheFrame

Wait == \E d \in WaitMs :
    /\ now + d <= T0 + MaxWaits * d
    /\ now' = now + d
    /\ UNCHANGED cacheVars
    /\ CacheFrame

FetchNext == FetchAndCache

FetchSpec == Init /\ [][FetchNext]_vars

\* rows a fetch has cached: the times lie half a minute inside the hour,
\* day, week and month windows of the first read; one row has no magnitude
CachedRows ==
    { CacheRow(Feature("c1", Some(3), Some("P"), Some(Sec(T0) - HourSec + HalfMinute), <<1, 2, 3>>)),
      CacheRow(Feature("c1", Some(5), Some("Q"), Some(Sec(T0) - DaySec + HalfMinute), <<4, 5, 6>>)),
      CacheRow(Feature("c2", Some(4), Some("R"), Some(Sec(T0) - WeekSec + HalfMinute), <<7, 8, 9>>)),
      CacheRow(Feature("c3", Some(5), Some("S"), Some(Sec(T0) - MonthSec + HalfMinute), <<1, 1, 1>>)),
      CacheRow(Feature("c3", None, Some("S"), Some(Sec(T0)), <<1, 1, 1>>)) }

\* the tables earlier fetches can have left: one row per id, in any order
CachedTables ==
    { t \in SeqsUpTo(CachedRows, MaxCached) :
        \A i, j \in 1..Len(t) : t[i].id = t[j].id => i = j }

\* earthquakes.db outlives the process: the reads start from a table and a
\* marker that earlier runs, or another writer, left
ReadInit ==
    /\ now = T0
    /\ sync_metadata = <<>>
    /\ earthquakes = <<>>
    /\ response = HttpError
    /\ window = [start_time |-> 0, end_time |-> 0, start_iso |-> 0, end_iso |-> 0]
    /\ ret = Returned("none", 0, 0)
    /\ homeowners = <<>>
    /\ applications = <<>>
    /\ in_memory_approvals = EmptyDict
    /\ http = Answer(0, None)
    /\ connection = "none"
    /\ schema_initialized = FALSE
    /\ earthquake_events = <<>>
    /\ db_result = DbResult("none", FALSE, <<>>)
    /\ cache \in CachedTables
    /\ metadata \in {None, Some(OtherText), Some(IsoFormat(T0))}
    /\ cache_result = CacheResult("none", <<>>, 0, <<>>, FALSE)
    /\ query_result = [min_magnitude |-> None, limit |-> 0, rows |-> <<>>]
    /\ syncs = [p \in Requests |-> IdleSync]

ReadNext == GetCached \/ ShouldRefresh \/ Wait

ReadSpec == ReadInit /\ [][ReadNext]_vars

----------------------------------------------------------------------------
(* earthquake_sync.py: get_earthquakes_from_db *)

\* rows earlier syncs have stored; the feed reports magnitudes below zero
\* for very small events
StoredQuakes ==
    { NewEarthquake(Feature("us1", Some(0 - 1), Some("P"), Some(10), <<1, 2, 3>>)),
      NewEarthquake(Feature("us2", Some(3), Some("Q"), Some(20), <<4, 5, 6>>)),
      NewEarthquake(Feature("us3", Some(5), Some("R"), Some(30), <<7, 8, 9>>)) }

StoredTables ==
    { t \in SeqsUpTo(StoredQuakes, MaxStored) : PrimaryKeyOk(t) }

\* if min_magnitude: None and 0 are both false
Truthy(x) == x # None /\ x[1] # 0

\* query.filter(Earthquake.magnitude >= min_magnitude)
MagnitudeFilter(rows, min_magnitude) ==
    IF Truthy(min_magnitude)
    THEN { i \in 1..Len(rows) : rows[i].magnitude[1] >= min_magnitude[1] }
    ELSE 1..Len(rows)

\* .limit(limit)
Limit(order, limit) ==
    SubSeq(order, 1, IF Len(order) < limit THEN Len(order) ELSE limit)

QueryResult(min_magnitude, limit, rows) ==
    [min_magnitude |-> min_magnitude, limit |-> limit, rows |-> rows]

get_earthquakes_from_db(min_magnitude, limit, order) ==
    LET ids == MagnitudeFilter(earthquakes, min_magnitude) IN
    /\ OrderedByTimeDesc(order, earthquakes, ids)
    /\ query_result' =
           QueryResult(min_magnitude, limit,
                       [i \in DOMAIN Limit(order, limit) |-> earthquakes[order[i]]])
    /\ UNCHANGED earthquakes

MinMagnitudeArgs == {None, Some(0), Some(4)}

GetEarthquakesFromDb ==
    \E min_magnitude \in MinMagnitudeArgs, limit \in 0..MaxLimit :
        \E order \in SeqsUpTo(1..Len(earthquakes), Len(earthquakes)) :
            /\ get_earthquakes_from_db(min_magnitude, limit, order)
            /\ UNCHANGED <<now, sync_metadata, response, window, ret, appVars,
                           dbVars, cacheVars, syncs>>

QueryInit ==
    /\ now = T0
    /\ sync_metadata = <<>>
    /\ earthquakes \in StoredTables
    /\ response = HttpError
    /\ window = [start_time |-> 0, end_time |-> 0, start_iso |-> 0, end_iso |-> 0]
    /\ ret = Returned("none", 0, 0)
    /\ homeowners = <<>>
    /\ applications = <<>>
    /\ in_memory_approvals = EmptyDict
    /\ http = Answer(0, None)
    /\ connection = "none"
    /\ schema_initialized = FALSE
    /\ earthquake_events = <<>>
    /\ db_result = DbResult("none", FALSE, <<>>)
    /\ cache = <<>>
    /\ metadata = None
    /\ cache_result = CacheResult("none", <<>>, 0, <<>>, FALSE)
    /\ query_result = QueryResult(None, 0, <<>>)
    /\ syncs = [p \in Requests |-> IdleSync]

QueryNext == GetEarthquakesFromDb

QuerySpec == QueryInit /\ [][QueryNext]_vars

----------------------------------------------------------------------------
(* Helpers of the properties *)

\* a step of SyncSpec that is a call of sync_earthquakes_from_usgs
SyncStep == window' # window

MetaRows(rows) == { i \in 1..Len(rows) : rows[i].sync_type = "earthquake" }

\* the one row of sync type 'earthquake' (only used where it exists)
MetaRow(rows) == rows[CHOOSE i \in MetaRows(rows) : TRUE]

OnePerId(rows) == \A i, j \in 1..Len(rows) : rows[i].id = rows[j].id => i = j

\* a row holds the values of a feature
Carries(row, f) ==
    /\ row.id = f.id
    /\ row.magnitude = f.mag
    /\ row.place = f.place
    /\ row.time = f.time
    /\ row.latitude = Some(f.coords[2])
    /\ row.longitude = Some(f.coords[1])
    /\ row.depth = Some(f.coords[3])

IsStored(f) == \E i \in 1..Len(earthquakes) : Carries(earthquakes[i], f)

\* the feature at position i of a response has at least 3 coordinates
Usable(fs, i) == ~fs[i].malformed /\ Len(fs[i].coords) >= 3

\* no later usable feature of the response has the id of the one at i
LastOfItsId(fs, i) ==
    \A j \in (i + 1)..Len(fs) : Usable(fs, j) => fs[j].id # fs[i].id

----------------------------------------------------------------------------
\* C1: whatever calls were made, succeeding or failing, the store holds at
\* most one sync-metadata row of sync type 'earthquake'; a call that finds a
\* row updates that row in place and a call that returns leaves exactly one
\* row, created only when there was none.
C1_SingleMetaRow ==
    /\ [](Cardinality(MetaRows(sync_metadata)) <= 1)
    /\ [][SyncStep =>
            /\ (ret'.outcome \in {"success", "failed"}
                    => Cardinality(MetaRows(sync_metadata')) = 1)
            /\ (MetaRows(sync_metadata) # {}
                    => /\ Len(sync_metadata') = Len(sync_metadata)
                       /\ MetaRow(sync_metadata').id = MetaRow(sync_metadata).id)
            /\ (MetaRows(sync_metadata) # {} /\ response'.features = <<>>
                    => /\ ret'.outcome = (IF response'.ok THEN "success" ELSE "failed")
                       /\ MetaRow(sync_metadata').status = ret'.outcome)
       ]_vars

\* a failure recorded in the row that an earlier successful sync had filled
C1_Witness ==
    /\ Cardinality(MetaRows(sync_metadata)) = 1
    /\ ret.outcome = "failed"
    /\ MetaRow(sync_metadata).last_sync_time > T0
    /\ MetaRow(sync_metadata).status = "failed"

----------------------------------------------------------------------------
\* C2 as stated: at most one earthquake row per id, and after a sync that
\* reports success the row of every feature of the response with at least 3
\* coordinates carries that feature's magnitude, place, time, latitude,
\* longitude and depth.
C2_EveryFeatureStored ==
    /\ OnePerId(earthquakes)
    /\ (ret.outcome = "success"
            => \A i \in 1..Len(response.features) :
                   Usable(response.features, i) => IsStored(response.features[i]))

\* C2 amended: at most one earthquake row per id, and after a sync that
\* reports success the row of an id carries the values of the last feature
\* of the response with that id and at least 3 coordinates.
C2_LastFeatureStored ==
    /\ OnePerId(earthquakes)
    /\ (ret.outcome = "success"
            => \A i \in 1..Len(response.features) :
                   Usable(response.features, i) /\ LastOfItsId(response.features, i)
                       => IsStored(response.features[i]))

\* a successful sync of a response that lists a stored id twice with
\* different values; the row holds the later ones
C2_Witness ==
    /\ ret.outcome = "success"
    /\ Len(response.features) = 2
    /\ Usable(response.features, 1) /\ Usable(response.features, 2)
    /\ response.features[1].id = response.features[2].id
    /\ response.features[1].mag # response.features[2].mag
    /\ ret.updated_records = 2
    /\ IsStored(response.features[2])

----------------------------------------------------------------------------
\* C3: a successful sync stores the end of the fetched window as
\* last_sync_time; a sync starts its window at the stored last_sync_time, the
\* first one (no metadata row) one day before the current time; so the window
\* of the sync that follows a successful one starts where that one ended, in
\* milliseconds and in the seconds sent to the feed.
C3_ContiguousWindows ==
    [][SyncStep =>
         /\ (MetaRows(sync_metadata) = {}
                 => window'.start_time = now - DayMs)
         /\ (MetaRows(sync_metadata) # {}
                 => window'.start_time = MetaRow(sync_metadata).last_sync_time)
         /\ (ret'.outcome = "success"
                 => MetaRow(sync_metadata').last_sync_time = window'.end_time)
         /\ (ret.outcome = "success"
                 => /\ window'.start_time = window.end_time
                    /\ window'.start_iso = window.end_iso)
    ]_vars

\* two successful syncs in a row: the second ran from the end of the first,
\* which was not the first-sync default
C3_Witness ==
    /\ ret.outcome = "success"
    /\ window.start_time > T0
    /\ window.start_time % MsPerSec # 0
    /\ MetaRow(sync_metadata).last_sync_time = window.end_time

----------------------------------------------------------------------------
\* C4: a sync that returns failure does not advance last_sync_time: an
\* existing row keeps it, a row created by the failure gets the start of the
\* attempted window; the sync after a failed one starts its window where the
\* failed one started and ends it no earlier.
C4_FailureKeepsTimestamp ==
    [][SyncStep =>
         /\ (ret'.outcome = "failed" /\ MetaRows(sync_metadata) # {}
                 => MetaRow(sync_metadata').last_sync_time
                        = MetaRow(sync_metadata).last_sync_time)
         /\ (ret'.outcome = "failed" /\ MetaRows(sync_metadata) = {}
                 => MetaRow(sync_metadata').last_sync_time = window'.start_time)
         /\ (ret.outcome = "failed"
                 => /\ window'.start_time = window.start_time
                    /\ window'.start_iso = window.start_iso
                    /\ window'.end_time >= window.end_time)
    ]_vars

\* a successful retry after a failure of the very first sync: it fetched
\* from the start of the failed window
C4_Witness ==
    /\ ret.outcome = "success"
    /\ window.start_time = T0 - DayMs
    /\ window.end_time > T0 + MaxElapsed \div 2
    /\ MetaRow(sync_metadata).id = 1

----------------------------------------------------------------------------
\* C5: the status of every sync-metadata row is one of success, failed,
\* in_progress; it is success after a sync that returned success=True and
\* failed after one that returned success=False.
C5_StatusMatchesResult ==
    /\ \A i \in 1..Len(sync_metadata) :
           sync_metadata[i].status \in {"success", "failed", "in_progress"}
    /\ (ret.outcome = "success" => MetaRow(sync_metadata).status = "success")
    /\ (ret.outcome = "failed" => MetaRow(sync_metadata).status = "failed")

\* a success recorded over an earlier failure
C5_Witness ==
    /\ ret.outcome = "success"
    /\ MetaRow(sync_metadata).status = "success"
    /\ window.start_time = T0 - DayMs
    /\ window.end_time > T0 + MaxElapsed \div 2

----------------------------------------------------------------------------
(* Helpers of the workflow properties *)

\* the workflow of the data model
Workflow == {"Pending", "Under Review", "Ready for Review", "Approved", "Rejected"}

ForwardMoves ==
    { <<"Pending", "Under Review">>, <<"Under Review", "Ready for Review">>,
      <<"Under Review", "Approved">>, <<"Under Review", "Rejected">> }

\* every status held anywhere
AllStatuses ==
    { homeowners[i].status : i \in 1..Len(homeowners) }
    \cup { applications[i].status : i \in 1..Len(applications) }
    \cup { in_memory_approvals[id].status : id \in DOMAIN in_memory_approvals }
    \cup { http.application[i].status : i \in 1..Len(http.application) }

AllSpaces(s) == \A i \in 1..Len(s) : s[i] = " "

\* the texts of the requests, trimmed
Trimmed(s) ==
    CASE s = OkComment -> <<"o", "k">>
      [] s = Reviewer  -> <<"a", "l">>
      [] s = Reply     -> <<"h", "i">>
      [] OTHER         -> <<>>

StatusFor(action) ==
    CASE action = "approve" -> "Approved"
      [] action = "reject" -> "Rejected"
      [] action = "request_more_info" -> "Under Review"

\* status and review fields of a record or row
Review(r) == <<r.status, r.approval_action, r.approval_comment,
               r.approver_name, r.approval_date>>

HomeownerReview(r) == <<r.status, r.review_notes, r.reviewer_name, r.review_date>>

\* every application that exists keeps its status and review fields
ReviewUnchanged ==
    /\ \A id \in DOMAIN in_memory_approvals :
           /\ id \in DOMAIN in_memory_approvals'
           /\ Review(in_memory_approvals'[id]) = Review(in_memory_approvals[id])
    /\ \A i \in 1..Len(applications) :
           /\ i <= Len(applications')
           /\ applications'[i].id = applications[i].id
           /\ Review(applications'[i]) = Review(applications[i])
    /\ \A i \in 1..Len(homeowners) :
           /\ i <= Len(homeowners')
           /\ homeowners'[i].id = homeowners[i].id
           /\ HomeownerReview(homeowners'[i]) = HomeownerReview(homeowners[i])

\* an applicant response moves Under Review to Ready for Review and leaves
\* the review fields alone
ResponseEffect ==
    /\ \A id \in DOMAIN in_memory_approvals :
           /\ id \in DOMAIN in_memory_approvals'
           /\ \/ Review(in_memory_approvals'[id]) = Review(in_memory_approvals[id])
              \/ /\ in_memory_approvals[id].status = "Under Review"
                 /\ Review(in_memory_approvals'[id]) =
                        <<"Ready for Review">> \o Tail(Review(in_memory_approvals[id]))
    /\ Len(applications') = Len(applications)
    /\ \A i \in 1..Len(applications) :
           \/ Review(applications'[i]) = Review(applications[i])
           \/ /\ applications[i].status = "Under Review"
              /\ Review(applications'[i]) =
                     <<"Ready for Review">> \o Tail(Review(applications[i]))
    /\ UNCHANGED homeowners

\* the reset script sets every homeowner to Pending with no review fields, or
\* changes nothing; it touches no other store
ResetEffect ==
    /\ Len(homeowners') = Len(homeowners)
    /\ \/ UNCHANGED homeowners
       \/ \A i \in 1..Len(homeowners) :
              HomeownerReview(homeowners'[i]) = <<"Pending", None, None, None>>
    /\ UNCHANGED <<applications, in_memory_approvals>>

----------------------------------------------------------------------------
\* C6: the status of an application only moves forward: whenever an
\* operation changes the status of a recorded application, the old and new
\* status are Pending and Under Review, or Under Review and one of Ready for
\* Review, Approved, Rejected.
C6_ForwardOnly ==
    [][\A id \in DOMAIN in_memory_approvals :
           (id \in DOMAIN in_memory_approvals'
                /\ in_memory_approvals'[id].status # in_memory_approvals[id].status)
               => <<in_memory_approvals[id].status, in_memory_approvals'[id].status>>
                      \in ForwardMoves
    ]_vars

----------------------------------------------------------------------------
\* C7 as stated: every status held by an application, generated, seeded or
\* changed by approve, respond or reset, is one of Pending, Under Review,
\* Ready for Review, Approved, Rejected.
C7_StatusInWorkflow == AllStatuses \subseteq Workflow

\* C7 amended: every status held by an application is one of Pending, Under
\* Review, Ready for Review, Approved, Rejected or Processing.
C7_StatusInWorkflowOrProcessing == AllStatuses \subseteq Workflow \cup {"Processing"}

\* a seeded homeowner in Processing beside an application that an applicant
\* response made Ready for Review
C7_Witness ==
    /\ \E i \in 1..Len(homeowners) : homeowners[i].status = "Processing"
    /\ \E id \in DOMAIN in_memory_approvals :
           in_memory_approvals[id].status = "Ready for Review"

----------------------------------------------------------------------------
\* C8 as stated: the status and review fields of an existing application
\* change only by a reviewer action; every other operation leaves them
\* unchanged.
C8_OnlyReviewerActions == [][ReviewUnchanged \/ Approve]_vars

\* C8 amended: the status and review fields of an existing application
\* change only by a reviewer action, by an applicant response (Under Review
\* to Ready for Review, review fields kept) or by the reset script (Pending,
\* review fields cleared); reading, listing, data generation and seeding
\* leave them unchanged.
C8_ReviewerResponseOrReset ==
    [][\/ ReviewUnchanged
       \/ ResponseEffect /\ Respond
       \/ ResetEffect /\ Reset
       \/ Approve
    ]_vars

\* an application kept in memory that an applicant response has made Ready
\* for Review, with the reviewer's fields still in place
C8_Witness ==
    /\ http.code = 200
    /\ \E id \in DOMAIN in_memory_approvals :
           /\ in_memory_approvals[id].status = "Ready for Review"
           /\ in_memory_approvals[id].approval_action = Some("request_more_info")
           /\ in_memory_approvals[id].applicant_response = Some(Trimmed(Reply))

----------------------------------------------------------------------------
\* C9: an accepted approval request gives the application the status of its
\* action (approve: Approved, reject: Rejected, request_more_info: Under
\* Review) and records the request's action, trimmed comment and trimmed
\* approver name, in the answer and in the store that took it.
C9_StatusByAction ==
    [][\/ http'.code # 200
       \/ http'.application = None
       \/ \A id \in RequestIds, req \in ApprovalRequests, out \in DbUpdateOutcomes :
              approve_application(id, req, out)
                  => LET expected == <<StatusFor(req.action), Some(req.action),
                                       Some(Trimmed(req.comment)),
                                       Some(Trimmed(req.approver_name))>>
                         Recorded(r) == <<r.status, r.approval_action,
                                          r.approval_comment, r.approver_name>>
                     IN  /\ Recorded(http'.application[1]) = expected
                         /\ http'.application[1].id = id
                         /\ \/ /\ id \in DOMAIN in_memory_approvals'
                               /\ Recorded(in_memory_approvals'[id]) = expected
                            \/ /\ in_memory_approvals' = in_memory_approvals
                               /\ \E i \in 1..Len(applications') :
                                      /\ applications'[i].id = id
                                      /\ Recorded(applications'[i]) = expected
    ]_vars

\* an accepted rejection kept in memory and answered, with the comment and
\* the approver name trimmed
C9_Witness ==
    /\ http.code = 200
    /\ http.application # None
    /\ http.application[1].status = "Rejected"
    /\ http.application[1].approval_comment = Some(<<"o", "k">>)
    /\ \E id \in DOMAIN in_memory_approvals :
           /\ in_memory_approvals[id].status = "Rejected"
           /\ in_memory_approvals[id].approver_name = Some(<<"a", "l">>)

----------------------------------------------------------------------------
\* C10: an approval request with an action outside approve, reject,
\* request_more_info or with an empty or whitespace-only comment or approver
\* name, and an applicant response that is empty or whitespace only, are
\* answered with 400 and leave the database and in_memory_approvals as they
\* were.
C10_InvalidRequestsChangeNothing ==
    [][\/ /\ http'.code = 400
          /\ UNCHANGED <<homeowners, applications, in_memory_approvals>>
       \/ /\ \A id \in RequestIds, req \in ApprovalRequests, out \in DbUpdateOutcomes :
                 (\/ req.action \notin {"approve", "reject", "request_more_info"}
                  \/ AllSpaces(req.comment)
                  \/ AllSpaces(req.approver_name))
                     => ~approve_application(id, req, out)
          /\ \A id \in RequestIds, text \in ResponseTexts, out \in DbUpdateOutcomes :
                 AllSpaces(text) => ~submit_applicant_response(id, text, out)
    ]_vars

\* a request answered with 400 while the stores hold applications
C10_Witness ==
    /\ http.code = 400
    /\ DOMAIN in_memory_approvals # {}
    /\ Len(applications) > 0

----------------------------------------------------------------------------
----------------------------------------------------------------------------
----------------------------------------------------------------------------
\* what a read answers for an id: the database record with the in-memory
\* fields over it, the in-memory fields with the id, or 404; found is
\* whether the database read returned the record
ReadAnswers(id, found) ==
    IF found
    THEN /\ http'.code = 200
         /\ http'.application # None
         /\ \E i \in 1..Len(applications) :
                /\ applications[i].id = id
                /\ http'.application[1] =
                       IF id \in DOMAIN in_memory_approvals
                       THEN LET m == in_memory_approvals[id] IN
                            [applications[i] EXCEPT
                                !.status = m.status,
                                !.approval_action = m.approval_action,
                                !.approval_comment = m.approval_comment,
                                !.approver_name = m.approver_name,
                                !.approval_date = m.approval_date,
                                !.applicant_response =
                                    IF m.applicant_response = None THEN @
                                    ELSE m.applicant_response,
                                !.applicant_response_date =
                                    IF m.applicant_response_date = None THEN @
                                    ELSE m.applicant_response_date]
                       ELSE applications[i]
    ELSE IF id \in DOMAIN in_memory_approvals
    THEN /\ http'.code = 200
         /\ http'.application # None
         /\ http'.application[1].id = id
         /\ Review(http'.application[1]) = Review(in_memory_approvals[id])
    ELSE /\ http'.code = 404
         /\ http'.application = None

----------------------------------------------------------------------------
\* C16: after reset_all_statuses completes without error every homeowner
\* has status Pending and no review notes, reviewer name or review date,
\* whatever its status was; when an error occurs no homeowner is changed.
C16_ResetAllOrNothing ==
    [][\A outcome \in ResetOutcomes :
           reset_all_statuses(outcome)
               => /\ Len(homeowners') = Len(homeowners)
                  /\ outcome = "ok"
                         => \A i \in 1..Len(homeowners) :
                                /\ homeowners'[i].id = homeowners[i].id
                                /\ HomeownerReview(homeowners'[i]) =
                                       <<"Pending", None, None, None>>
                  /\ outcome # "ok" => homeowners' = homeowners
    ]_vars

----------------------------------------------------------------------------
\* C14: db.save_earthquake_event upserts by id: after a save that succeeds
\* the table holds exactly one record for the event's id and that record
\* carries the values just saved; a save of a new id adds one record.
C14_UpsertOverwrites ==
    [][\A e \in EarthquakeEvents, x \in BOOLEAN :
           (save_earthquake_event(e, x) /\ db_result'.ok)
               => /\ Cardinality({ i \in 1..Len(earthquake_events') :
                                      earthquake_events'[i].id = e.id }) = 1
                  /\ \E i \in 1..Len(earthquake_events') : earthquake_events'[i] = e
                  /\ (\A i \in 1..Len(earthquake_events) : earthquake_events[i].id # e.id)
                         => Len(earthquake_events') = Len(earthquake_events) + 1
    ]_vars

----------------------------------------------------------------------------
\* C19: while get_databricks_connection gives None, every call of db.py
\* returns a value and does not raise: initialize_schema,
\* save_earthquake_event and save_homeowner_application return False,
\* get_homeowner_applications returns an empty list, and nothing is written.
C19_NoConnectionNoWrite ==
    [][(connection = "none" /\ connection' = "none")
           => /\ UNCHANGED <<schema_initialized, earthquake_events, applications>>
              /\ ~db_result'.raised
              /\ ~db_result'.ok
              /\ db_result'.rows = <<>>
    ]_vars

\* a read made without a connection while the table holds an application:
\* the empty list
C19_Witness ==
    /\ connection = "none"
    /\ db_result = [op |-> "get_homeowner_applications", ok |-> FALSE,
                    rows |-> <<>>, raised |-> FALSE]
    /\ Len(applications) > 0
    /\ schema_initialized

----------------------------------------------------------------------------
\* the window a read is to apply, in seconds
WindowOf(timeframe) ==
    IF timeframe = "hour" THEN HourSec
    ELSE IF timeframe = "week" THEN 7 * DaySec
    ELSE IF timeframe = "month" THEN 30 * DaySec
    ELSE DaySec

\* the step is a call of op on the cache
CacheCall(op) == cache_result'.op = op /\ now' = now

----------------------------------------------------------------------------
\* the values a cached row takes from a feature, coordinates apart
CarriesValues(row, f) ==
    /\ row.id = f.id
    /\ row.magnitude = f.mag
    /\ row.place = f.place
    /\ row.time = f.time

\* rows whose id no feature of the response has are kept
AbsentKept(fs) ==
    \A k \in 1..Len(cache) :
        (\A i \in 1..Len(fs) : fs[i].id # cache[k].id)
            => \E m \in 1..Len(cache') : cache'[m] = cache[k]

\* the step is a call of fetch_and_cache_earthquakes
FetchCall == CacheCall("fetch") \/ CacheCall("raised")

\* C17 as stated: after a fetch the cache holds at most one row per id, the
\* row of every id the fetched response contains holds the values the
\* response gives it, and the rows of ids absent from the response are kept.
C17_LatestFetchStored ==
    [][FetchCall
           => LET fs == cache_result'.args[1].features IN
              /\ OnePerId(cache')
              /\ AbsentKept(fs)
              /\ \A i \in 1..Len(fs) :
                     (~fs[i].malformed /\ \A j \in (i + 1)..Len(fs) : fs[j].id # fs[i].id)
                         => \E m \in 1..Len(cache') : CarriesValues(cache'[m], fs[i])
    ]_vars

\* what fetch_and_cache_earthquakes does keep (the part of C17 the code
\* meets): after a fetch the cache holds at most one row per id and the
\* rows of ids absent from the response are kept; when no feature of the
\* response has a null geometry, the row of every id holds the values of
\* the last feature of the response with that id and at least 3
\* coordinates, and an id with no such feature keeps the row it had; a
\* response with a null geometry, or a failed request, leaves the cache as
\* it was.
C17_LatestStoredFeatureKept ==
    [][FetchCall
           => LET feed == cache_result'.args[1]
                  fs == feed.features
              IN
              /\ OnePerId(cache')
              /\ AbsentKept(fs)
              /\ IF feed.ok /\ \A i \in 1..Len(fs) : ~fs[i].malformed
                 THEN /\ \A i \in 1..Len(fs) :
                             (Usable(fs, i) /\ LastOfItsId(fs, i))
                                 => \E m \in 1..Len(cache') : Carries(cache'[m], fs[i])
                      /\ \A k \in 1..Len(cache) :
                             (\A i \in 1..Len(fs) : Usable(fs, i) => fs[i].id # cache[k].id)
                                 => \E m \in 1..Len(cache') : cache'[m] = cache[k]
                 ELSE cache' = cache
    ]_vars

\* a fetch that replaced the stored row of us1 by the later values and kept
\* the row of us2, which the response did not contain
C17_Witness ==
    /\ cache_result.op = "fetch"
    /\ cache_result.count = 2
    /\ Len(cache) = 2
    /\ cache[1].id = "us2"
    /\ cache[2].id = "us1"
    /\ cache[2].magnitude = Some(5)
    /\ metadata = Some(IsoFormat(now))

----------------------------------------------------------------------------
\* C18: should_refresh answers True exactly when there is no last-refresh
\* marker or it cannot be read, or the marker is not an ISO timestamp, or
\* the marker is more than max_age_minutes old; a marker at most
\* max_age_minutes old gives False.
C18_RefreshWhenStale ==
    [][CacheCall("should_refresh")
           => LET max_age_minutes == cache_result'.args[1]
                  readable == cache_result'.args[2]
              IN  /\ cache_result'.flag =
                         (\/ ~readable
                          \/ metadata = None
                          \/ metadata[1].kind # "iso"
                          \/ now - metadata[1].ms > max_age_minutes * 60 * MsPerSec)
                  /\ UNCHANGED <<cache, metadata>>
    ]_vars

\* a marker exactly one minute old, read with max_age_minutes = 1: no
\* refresh
C18_Witness ==
    /\ cache_result.op = "should_refresh"
    /\ cache_result.args = <<1, TRUE>>
    /\ ~cache_result.flag
    /\ metadata # None
    /\ metadata[1].kind = "iso"
    /\ now - metadata[1].ms = 60 * MsPerSec

----------------------------------------------------------------------------
\* C20: get_earthquakes_from_db returns at most limit earthquakes ordered
\* by time descending; when a min_magnitude is given, 0 included, every
\* returned earthquake has a magnitude of at least min_magnitude; when
\* min_magnitude is None no earthquake is left out for its magnitude.
C20_MagnitudeFilter ==
    LET res == query_result.rows
        min_magnitude == query_result.min_magnitude
        limit == query_result.limit
    IN  /\ Len(res) <= limit
        /\ \A i, j \in 1..Len(res) : i < j => res[i].time[1] >= res[j].time[1]
        /\ \A i \in 1..Len(res) : \E k \in 1..Len(earthquakes) : earthquakes[k] = res[i]
        /\ min_magnitude # None
               => \A i \in 1..Len(res) : res[i].magnitude[1] >= min_magnitude[1]
        /\ min_magnitude = None
               => Len(res) = IF Len(earthquakes) < limit THEN Len(earthquakes) ELSE limit

----------------------------------------------------------------------------
\* C21: for every successful sync, new_records + updated_records =
\* total_processed = the number of features of the response with at least
\* 3 coordinates; a feature with fewer is skipped and stored nowhere;
\* new_records is the number of ids not stored before the sync; and the
\* metadata's records_synced equals total_processed.
C21_CountsMatchFeatures ==
    [][(SyncStep /\ ret'.outcome = "success")
           => LET fs == response'.features
                  used == { i \in 1..Len(fs) : Usable(fs, i) }
                  storedBefore == { earthquakes[k].id : k \in 1..Len(earthquakes) }
                  storedAfter == { earthquakes'[k].id : k \in 1..Len(earthquakes') }
                  mi == QuerySyncMeta(sync_metadata')
              IN  /\ ret'.new_records + ret'.updated_records = ret'.total_processed
                  /\ ret'.total_processed = Cardinality(used)
                  /\ ret'.new_records =
                         Cardinality({ fs[i].id : i \in used } \ storedBefore)
                  /\ mi # 0
                  /\ sync_metadata'[mi].records_synced = ret'.total_processed
                  /\ storedAfter = storedBefore \cup { fs[i].id : i \in used }
    ]_vars

\* a successful sync of a response with one new earthquake and one feature
\* of 2 coordinates: one record processed, the short feature not stored
C21_Witness ==
    /\ ret.outcome = "success"
    /\ Len(response.features) = 2
    /\ ret.new_records = 1
    /\ ret.total_processed = 1
    /\ \E i \in 1..2 : response.features[i].id = "us2" /\ Len(response.features[i].coords) < 3
    /\ \A k \in 1..Len(earthquakes) : earthquakes[k].id # "us2"
    /\ Len(sync_metadata) = 1
    /\ sync_metadata[1].records_synced = 1

----------------------------------------------------------------------------
\* C22: under any interleaving of concurrent sync requests the stored
\* last_sync_time never decreases: a sync that computed its window end
\* earlier and commits later does not overwrite the later last_sync_time
\* another sync has written.
C22_LastSyncTimeMonotone ==
    [][\A mi \in MetaRows(sync_metadata) :
           /\ mi \in MetaRows(sync_metadata')
           /\ sync_metadata'[mi].last_sync_time >= sync_metadata[mi].last_sync_time
    ]_vars

====
